---- MODULE Spec2Model ----
(***************************************************************************)
(* Model of scripts/google_extractor: the batch orchestration of           *)
(* run_process and the pagination of _process_single_query (main.py),      *)
(* with search_google_cse / process_search_results (google_cse.py),        *)
(* extract_main_text_requests (text_extractor.py), save_jsonl_record       *)
(* (data_handler.py) and validate_config (config.py).                      *)
(*                                                                         *)
(* The search provider, the fetched web pages and the file system are the  *)
(* environment: every call to them takes its outcome from a small set.     *)
(***************************************************************************)
EXTENDS Integers, Sequences, FiniteSets, TLC

\* ------------------------------------------------------------------ bounds
\* args.pages ranges over 0..MaxPages in the single-query specification.
MaxPages == 5
\* args.num_results ranges over 1..MaxNum in the single-query specification.
MaxNum == 2
\* The query source returns at most MaxQueries queries in a whole run.
MaxQueries == 3
\* args.batch_size ranges over 1..MaxBatch in a whole run.
MaxBatch == 2
\* batch_generator alone: lists of 0..MaxListLen queries, sizes 1..MaxBatchSize.
MaxListLen == 23
MaxBatchSize == 10
\* process_search_results alone: responses of 0..MaxItems catalogue items.
MaxItems == 3
\* At most MaxIOFaults flushes of a whole run meet an I/O failure.
MaxIOFaults == 2

\* ------------------------------------------------------- program constants
\* argparse default of --pages (main.py:44); the whole-run specification uses it.
DEFAULT_PAGES == 1
\* config.DEFAULT_CSE_NUM_RESULTS, the argparse default of --num-results.
DEFAULT_CSE_NUM_RESULTS == 10
\* smallest accepted --num-results (main.py:57); the whole-run specification uses it.
MIN_NUM_RESULTS == 1
\* The two default base paths of config.py, a path being the sequence of its
\* components: DEFAULT_EXTRACTED_OUTPUT_BASE = "results/raw_search" and
\* DEFAULT_SEARCH_OUTPUT_BASE = "results/extracted_text".
DEFAULT_EXTRACTED_OUTPUT_BASE == <<"results", "raw_search">>
DEFAULT_SEARCH_OUTPUT_BASE == <<"results", "extracted_text">>
\* parse_arguments: --search-output-base and --extracted-output-base take
\* their defaults from the constants of the same name.
DefaultBases == [search_output_base : {DEFAULT_SEARCH_OUTPUT_BASE},
                 extracted_output_base : {DEFAULT_EXTRACTED_OUTPUT_BASE}]

\* ------------------------------------------------------------------ os.path
os_path_dirname(path) == SubSeq(path, 1, Len(path) - 1)
os_path_basename(path) == path[Len(path)]
os_path_join(dir, name) == dir \o <<name>>

\* os.path.dirname(base) or '.'
OutputDir(base) ==
    IF os_path_dirname(base) = <<>> THEN <<".">> ELSE os_path_dirname(base)

\* The batch directory of a base path: <dir>/<name>_batches.
BatchDir(base) ==
    os_path_join(OutputDir(base), os_path_basename(base) \o "_batches")

\* The file of batch index: <batch dir>/<name>_<index + 1>.jsonl.
BatchFilename(base, index) ==
    os_path_join(BatchDir(base),
                 os_path_basename(base) \o "_" \o ToString(index + 1) \o ".jsonl")

\* ------------------------------------------------------------- data values
\* Python's None where a string is expected.
None == "None"
\* dict.get default of title and snippet.
NA == "N/A"
\* A key that the provider's item does not carry.
Absent == "absent"

\* A link is modelled by its scheme prefix and the rest of the string.
Link(scheme, rest) == [scheme |-> scheme, rest |-> rest]
\* item.get('link') of an item without the key, and the empty string.
NoneLink == Link(None, "")
EmptyLink == Link("", "")

\* Python truthiness of a link value.
Truthy(link) == link # NoneLink /\ link # EmptyLink

\* link.startswith(('http://', 'https://'))
StartsWithHttp(link) == link.scheme \in {"http://", "https://"}

Min(a, b) == IF a < b THEN a ELSE b

\* ------------------------------------------------- the provider's responses
\* What an invalid item of a response looks like.
BadKinds == {"ftp", "empty", "missing"}

BadLink(kind) ==
    CASE kind = "ftp" -> Link("ftp://", "bad")
      [] kind = "empty" -> EmptyLink
      [] OTHER -> NoneLink

\* The i-th item of a response of n items whose item number bad (0: none)
\* carries an invalid link. Valid links alternate between the two schemes.
ProviderItem(i, bad, kind) ==
    [title |-> ToString(i),
     link |-> IF i = bad THEN BadLink(kind)
              ELSE Link(IF i % 2 = 1 THEN "https://" ELSE "http://", "a.example"),
     snippet |-> ToString(i)]

ProviderItems(n, bad, kind) == [i \in 1..n |-> ProviderItem(i, bad, kind)]

\* Outcomes of the HTTP exchange that are not a decoded JSON object.
FailureKinds == {"timeout", "conn_error", "http_error", "bad_json",
                 "bad_json_requests", "api_error", "unexpected"}

Failure(kind) == [kind |-> kind, has_items |-> FALSE, items |-> <<>>]

\* A decoded JSON object, with or without the 'items' key.
Ok(has_items, items) == [kind |-> "ok", has_items |-> has_items, items |-> items]

\* The responses the provider may give to a request of num results: every
\* failure, an object without items, lists of 0..num+1 valid items (one more
\* than asked for at most), and lists of 1..num items of which one is
\* invalid: the second, or the only one.
Responses(num) ==
    {Failure(k) : k \in FailureKinds}
    \cup {Ok(FALSE, <<>>)}
    \cup {Ok(TRUE, ProviderItems(n, 0, "ftp")) : n \in 0..(num + 1)}
    \cup {Ok(TRUE, ProviderItems(n, Min(2, n), kind)) :
            n \in 1..num, kind \in BadKinds}

\* How the fetched pages of one result page behave.
ExtPatterns == {"all_text", "first_fails"}

\* The outcome of fetching the URL of the i-th valid item under a pattern.
FetchOutcome(ext, i) ==
    CASE ext = "all_text" -> "html_text"
      [] ext = "all_fail" -> "timeout"
      [] OTHER -> IF i = 1 THEN "not_html" ELSE "html_text"

\* ------------------------------------------------------------ google_cse.py
Returned(value) == [raised |-> "none", is_none |-> FALSE, json |-> value]
ReturnedNone == [raised |-> "none", is_none |-> TRUE, json |-> Ok(FALSE, <<>>)]
Raised(exc) == [raised |-> exc, is_none |-> FALSE, json |-> Ok(FALSE, <<>>)]

\* search_google_cse: one request; resp is what the HTTP exchange gives.
\* "bad_json" is a plain json.JSONDecodeError, "bad_json_requests" the
\* requests.exceptions.JSONDecodeError that is also a RequestException and is
\* therefore met by the earlier except clause; "unexpected" is any exception
\* that no except clause names.
search_google_cse(key, cse, resp) ==
    IF ~key \/ ~cse THEN ReturnedNone
    ELSE CASE resp.kind = "ok" -> Returned(resp)
           [] resp.kind = "api_error" -> ReturnedNone
           [] resp.kind = "timeout" -> ReturnedNone
           [] resp.kind \in {"conn_error", "http_error", "bad_json_requests"} ->
                Raised("RequestException")
           [] resp.kind = "bad_json" -> ReturnedNone
           [] OTHER -> Raised("Exception")

\* The dict process_search_results builds from one provider item.
ProcessedItem(item) ==
    [title |-> IF item.title = Absent THEN NA ELSE item.title,
     link |-> item.link,
     snippet |-> IF item.snippet = Absent THEN NA ELSE item.snippet]

\* KeepsItem that accepts every non-empty link.
KeepsItem_AnyLink(item) == Truthy(item.link)

KeepsItem(item) == Truthy(item.link) /\ StartsWithHttp(item.link)

RECURSIVE FilterItems(_)
FilterItems(items) ==
    IF items = <<>> THEN <<>>
    ELSE IF KeepsItem(Head(items))
         THEN <<ProcessedItem(Head(items))>> \o FilterItems(Tail(items))
         ELSE FilterItems(Tail(items))

\* process_search_results: the valid-link items, in order.
process_search_results(call) ==
    IF call.is_none \/ ~call.json.has_items THEN <<>>
    ELSE FilterItems(call.json.items)

\* -------------------------------------------------------- text_extractor.py
\* extract_main_text_requests: text, or None on every failure (it never raises).
extract_main_text_requests(outcome) ==
    IF outcome = "html_text" THEN "text" ELSE None

\* ----------------------------------------------------------- data_handler.py
\* save_jsonl_record: TRUE when the line was written, FALSE when dumps or
\* write raised (the exception is swallowed).
save_jsonl_record(write_ok) == write_ok

\* ------------------------------------------------------------------ main.py
\* batch_generator whose slice misses its last element.
batch_generator_ShortSlice(data, size, i) ==
    IF i >= Len(data)
    THEN [done |-> TRUE, batch |-> <<>>, next |-> i]
    ELSE [done |-> FALSE,
          batch |-> SubSeq(data, i + 1, Min(i + size - 1, Len(data))),
          next |-> i + size]

\* One step of the generator batch_generator(data, batch_size) standing at
\* offset i of range(0, len(data), batch_size): the slice data[i:i+batch_size].
batch_generator(data, size, i) ==
    IF i >= Len(data)
    THEN [done |-> TRUE, batch |-> <<>>, next |-> i]
    ELSE [done |-> FALSE,
          batch |-> SubSeq(data, i + 1, Min(i + size, Len(data))),
          next |-> i + size]

\* math.ceil(n / size): the quotient is exact for the sizes of a query list.
math_ceil_div(n, size) ==
    IF n % size = 0 THEN n \div size ELSE (n \div size) + 1

\* RawRecord with the rank counted from the start of the page.
RawRecord_PageLocalRank(item, q, pg, start_index, idx) ==
    [title |-> item.title, link |-> item.link, snippet |-> item.snippet,
     query |-> q, search_page |-> pg + 1, approx_rank |-> idx + 1]

\* The raw record of the item at position idx (0-based) of a page.
RawRecord(item, q, pg, start_index, idx) ==
    [title |-> item.title, link |-> item.link, snippet |-> item.snippet,
     query |-> q, search_page |-> pg + 1, approx_rank |-> start_index + idx]

\* The text of the extracted record: None without a link, else the extraction.
ExtractedContent(item, ext, idx) ==
    IF ~Truthy(item.link) THEN None
    ELSE extract_main_text_requests(FetchOutcome(ext, idx + 1))

\* The extracted record of the item at position idx (0-based) of a page.
ExtractedRecord(item, q, pg, start_index, idx, ext) ==
    [query |-> q, search_page |-> pg + 1, approx_rank |-> start_index + idx,
     url |-> item.link, title |-> item.title,
     extracted_text |-> ExtractedContent(item, ext, idx)]

\* The raw records appended for one page.
PageRaw(list, q, pg, start_index) ==
    [i \in 1..Len(list) |-> RawRecord(list[i], q, pg, start_index, i - 1)]

\* PageExtracted without the records whose extraction gave nothing.
PageExtracted_DropsFailed(list, q, pg, start_index, ext) ==
    SelectSeq([i \in 1..Len(list) |->
                  ExtractedRecord(list[i], q, pg, start_index, i - 1, ext)],
              LAMBDA r : r.extracted_text # None)

\* The extracted records appended for one page.
PageExtracted(list, q, pg, start_index, ext) ==
    [i \in 1..Len(list) |-> ExtractedRecord(list[i], q, pg, start_index, i - 1, ext)]

\* The URLs extract_main_text_requests is called with for one page, in order.
PageExtractorCalls(list) ==
    LET linked == SelectSeq(list, LAMBDA item : Truthy(item.link))
    IN [i \in 1..Len(linked) |-> linked[i].link]

\* PageCounters that counts a URL as processed only when it gave text.
PageCounters_CountsTextOnly(c, list, ext) ==
    [raw_saved |-> c.raw_saved + Len(list),
     urls_processed |-> c.urls_processed
         + Cardinality({i \in 1..Len(list) :
                ExtractedContent(list[i], ext, i - 1) # None}),
     extractions_success |-> c.extractions_success
         + Cardinality({i \in 1..Len(list) :
                ExtractedContent(list[i], ext, i - 1) # None})]

\* The counters after one page has been added to them.
PageCounters(c, list, ext) ==
    [raw_saved |-> c.raw_saved + Len(list),
     urls_processed |-> c.urls_processed
         + Cardinality({i \in 1..Len(list) : Truthy(list[i].link)}),
     extractions_success |-> c.extractions_success
         + Cardinality({i \in 1..Len(list) :
                ExtractedContent(list[i], ext, i - 1) # None})]

\* ShortPage with the comparison off by one.
ShortPage_OffByOne(list, num) == Len(list) < num - 1

\* The page loop stops after a page shorter than the requested size.
ShortPage(list, num) == Len(list) < num

ZeroCounters == [raw_saved |-> 0, urls_processed |-> 0, extractions_success |-> 0]

AddCounters(a, b) ==
    [raw_saved |-> a.raw_saved + b.raw_saved,
     urls_processed |-> a.urls_processed + b.urls_processed,
     extractions_success |-> a.extractions_success + b.extractions_success]

\* The lines that reach a batch file: the records whose write succeeded.
RECURSIVE WrittenFrom(_, _, _)
WrittenFrom(records, outcome, i) ==
    IF i > Len(records) THEN <<>>
    ELSE IF save_jsonl_record(~(outcome = "first_write_fails" /\ i = 1))
         THEN <<records[i]>> \o WrittenFrom(records, outcome, i + 1)
         ELSE WrittenFrom(records, outcome, i + 1)

WrittenLines(records, outcome) == WrittenFrom(records, outcome, 1)

\* What opening, writing and closing one batch file may do. The writes go to
\* the buffer of the file object; the close at the end of the with block
\* flushes it and may raise the IOError itself.
FlushOutcomes == {"open_error", "all_written", "first_write_fails", "close_error"}

\* The outcomes that raise IOError out of the with block.
RaisesIOError(outcome) == outcome \in {"open_error", "close_error"}

\* What a file keeps when the flush at its close fails: the lines that left
\* the buffer earlier, the last one written never among them.
FlushedBeforeClose(lines) == SubSeq(lines, 1, Len(lines) - 1)

\* os.makedirs of the two batch directories.
MkdirOutcomes == {"ok", "raw_fails", "extracted_fails"}

\* ------------------------------------------------------------------- state
VARIABLES
    config,     \* config.API_KEY, config.CSE_ID: is the secret set
    source,     \* what read_queries_from_vifactcheck will return
    args,       \* pages, num_results, batch_size, delay
    queries,    \* run_process: queries
    dirs,       \* the batch directories that exist
    total_counters, actual_lines_written, global_query_index,
    num_batches,    \* the announced number of batches
    gen_i,          \* offset of the batch_generator
    batches,        \* the batches the generator has yielded so far
    batch_index, query_batch, query_in_batch_index,
    current_batch_raw_results, current_batch_extracted_results,
    current_query, page, stop_fetching_pages, counters,
    raw_results_for_query, extracted_results_for_query,
    results_json,           \* what the last search call returned
    search_results_list,    \* what process_search_results made of it
    files,      \* file name -> the lines written to it
    io_log,     \* the open() calls so far: file, its path, whether it opened,
                \* and the number of records whose write then failed
    sleeps,     \* number of time.sleep calls
    search_log, \* start index of every search call of the current query
    extractor_calls,    \* the URL of every extract_main_text_requests call
                        \* of the current query
    page_yield, \* per search call of the current query: length of the
                \* normalized list, -1 when the call failed, -2 when it
                \* raised an exception the function does not handle
    returned,   \* number of _process_single_query calls that returned
    produced_raw, produced_extracted,
                \* the records returned by the queries of the current batch
    failed_queries, \* the queries one of whose search calls failed
    fatal,      \* the exception caught at the top level, or "none"
    summary,    \* the printed summary, once printed
    pc

cfgVars == <<config, source, args>>
runVars == <<queries, dirs, total_counters, actual_lines_written,
             global_query_index, num_batches>>
genVars == <<gen_i, batches>>
batchVars == <<batch_index, query_batch, query_in_batch_index,
               current_batch_raw_results, current_batch_extracted_results,
               produced_raw, produced_extracted>>
queryVars == <<current_query, page, stop_fetching_pages, counters,
               raw_results_for_query, extracted_results_for_query,
               search_log, page_yield, extractor_calls>>
pageVars == <<results_json, search_results_list>>
ioVars == <<files, io_log>>
obsVars == <<sleeps, returned, failed_queries, fatal, summary>>

vars == <<cfgVars, runVars, genVars, batchVars, queryVars, pageVars, ioVars,
         obsVars, pc>>

NoFiles == [f \in {} |-> <<>>]
NoSummary == [printed |-> FALSE, processed |-> 0, total |-> 0,
              counters |-> ZeroCounters, lines |-> [raw |-> 0, extracted |-> 0]]

QueryList(n) == [i \in 1..n |-> i]

\* Everything but the configuration, before run_process has done anything.
Blank ==
    /\ queries = <<>> /\ dirs = {}
    /\ total_counters = ZeroCounters
    /\ actual_lines_written = [raw |-> 0, extracted |-> 0]
    /\ global_query_index = 0 /\ num_batches = 0
    /\ gen_i = 0 /\ batches = <<>>
    /\ batch_index = 0 /\ query_batch = <<>> /\ query_in_batch_index = 0
    /\ current_batch_raw_results = <<>> /\ current_batch_extracted_results = <<>>
    /\ produced_raw = <<>> /\ produced_extracted = <<>>
    /\ current_query = 0 /\ page = 0 /\ stop_fetching_pages = FALSE
    /\ counters = ZeroCounters
    /\ raw_results_for_query = <<>> /\ extracted_results_for_query = <<>>
    /\ search_log = <<>> /\ page_yield = <<>> /\ extractor_calls = <<>>
    /\ results_json = ReturnedNone /\ search_results_list = <<>>
    /\ files = NoFiles /\ io_log = <<>>
    /\ sleeps = 0 /\ returned = 0 /\ failed_queries = {}
    /\ fatal = "none" /\ summary = NoSummary

\* A whole run: the default page count, the smallest page size.
Init ==
    /\ config \in [API_KEY : BOOLEAN, CSE_ID : BOOLEAN]
    /\ source \in {[ok |-> FALSE, queries |-> <<>>]}
                  \cup {[ok |-> TRUE, queries |-> QueryList(n)] : n \in 0..MaxQueries}
    /\ \E a \in [pages : {DEFAULT_PAGES}, num_results : {MIN_NUM_RESULTS},
                 batch_size : 1..MaxBatch, delay : {0, 1}],
          b \in DefaultBases : args = a @@ b
    /\ Blank
    /\ pc = "validate"

\* ----------------------------------------------------------------- actions
\* ValidateConfig that looks at the API key only.
ValidateConfig_OnlyApiKey ==
    /\ pc = "validate"
    /\ pc' = IF config.API_KEY THEN "read" ELSE "exit"
    /\ UNCHANGED <<pageVars, cfgVars, runVars, genVars, batchVars, queryVars, ioVars, obsVars>>

\* config.validate_config and the early return of run_process.
ValidateConfig ==
    /\ pc = "validate"
    /\ pc' = IF config.API_KEY /\ config.CSE_ID THEN "read" ELSE "exit"
    /\ UNCHANGED <<pageVars, cfgVars, runVars, genVars, batchVars, queryVars, ioVars, obsVars>>

\* read_queries_from_vifactcheck and the two early returns.
ReadQueries ==
    /\ pc = "read"
    /\ IF source.ok /\ source.queries # <<>>
       THEN queries' = source.queries /\ pc' = "mkdirs"
       ELSE queries' = queries /\ pc' = "exit"
    /\ UNCHANGED <<pageVars, cfgVars, dirs, total_counters, actual_lines_written,
                   global_query_index, num_batches, genVars, batchVars,
                   queryVars, ioVars, obsVars>>

\* The two os.makedirs calls; an OSError of either ends the run.
PrepareDirs(outcome) ==
    /\ pc = "mkdirs"
    /\ dirs' = CASE outcome = "ok" -> {"raw", "extracted"}
                 [] outcome = "extracted_fails" -> {"raw"}
                 [] OTHER -> {}
    /\ pc' = IF outcome = "ok" THEN "setup" ELSE "exit"
    /\ UNCHANGED <<pageVars, cfgVars, queries, total_counters, actual_lines_written,
                   global_query_index, num_batches, genVars, batchVars,
                   queryVars, ioVars, obsVars>>

\* The counters, the announced number of batches and the generator.
SetupBatches ==
    /\ pc = "setup"
    /\ total_counters' = ZeroCounters
    /\ actual_lines_written' = [raw |-> 0, extracted |-> 0]
    /\ global_query_index' = 0
    /\ num_batches' = math_ceil_div(Len(queries), args.batch_size)
    /\ gen_i' = 0 /\ batches' = <<>>
    /\ pc' = "batch_loop"
    /\ UNCHANGED <<pageVars, cfgVars, queries, dirs, batchVars, queryVars, ioVars, obsVars>>

\* enumerate(batch_iterator) hands out the next batch g.batch.
TakeBatch(g) ==
    /\ gen_i' = g.next
    /\ batches' = Append(batches, g.batch)
    /\ batch_index' = Len(batches)
    /\ query_batch' = g.batch

\* Head of the batch loop: the next batch with two fresh lists, or the end
\* of the loop.
NextBatch ==
    /\ pc = "batch_loop"
    /\ LET g == batch_generator(queries, args.batch_size, gen_i)
       IN IF g.done
          THEN /\ pc' = "summary"
               /\ UNCHANGED <<genVars, batchVars>>
          ELSE /\ TakeBatch(g)
               /\ query_in_batch_index' = 0
               /\ current_batch_raw_results' = <<>>
               /\ current_batch_extracted_results' = <<>>
               /\ produced_raw' = <<>> /\ produced_extracted' = <<>>
               /\ pc' = "query_loop"
    /\ UNCHANGED <<pageVars, cfgVars, runVars, queryVars, ioVars, obsVars>>

\* The delay is applied before every query but the first of the run.
DelayApplies(gqi, delay) == gqi > 0 /\ delay > 0

\* Head of the query loop: the delay, then the call of _process_single_query
\* with its fresh counters and lists.
StartQuery ==
    /\ pc = "query_loop"
    /\ query_in_batch_index < Len(query_batch)
    /\ sleeps' = IF DelayApplies(global_query_index, args.delay)
                 THEN sleeps + 1 ELSE sleeps
    /\ current_query' = query_batch[query_in_batch_index + 1]
    /\ page' = 0 /\ stop_fetching_pages' = FALSE
    /\ counters' = ZeroCounters
    /\ raw_results_for_query' = <<>> /\ extracted_results_for_query' = <<>>
    /\ search_log' = <<>> /\ page_yield' = <<>> /\ extractor_calls' = <<>>
    /\ results_json' = ReturnedNone /\ search_results_list' = <<>>
    /\ pc' = "page_loop"
    /\ UNCHANGED <<cfgVars, runVars, genVars, batchVars, ioVars,
                   returned, failed_queries, fatal, summary>>

\* The search call failed in a way _process_single_query handles: a
\* RequestException, or no response.
SearchFailed(call) == call.raised = "RequestException" \/ call.is_none

\* StopAfter that goes on to the next page after a failed search call.
StopAfter_IgnoresFailure(call, list, num) ==
    IF call.raised = "RequestException" \/ call.is_none THEN FALSE
    ELSE IF list # <<>> THEN Len(list) < num
    ELSE TRUE

\* stop_fetching_pages after an iteration that reached the search call.
StopAfter(call, list, num) ==
    IF SearchFailed(call) THEN TRUE
    ELSE IF list # <<>> THEN ShortPage(list, num)
    ELSE TRUE

\* StartIndex counted from 0.
StartIndex_ZeroBased(pg, num) == pg * num

\* start_index of the search call for a page.
StartIndex(pg, num) == pg * num + 1

\* One iteration of the page loop that reaches the search call: the request,
\* and for every valid item the raw record, the extraction and the extracted
\* record. An exception that is no RequestException leaves the function and
\* is caught at the top level of run_process.
FetchPage(resp, ext) ==
    /\ pc = "page_loop"
    /\ page < args.pages /\ ~stop_fetching_pages
    /\ LET start_index == StartIndex(page, args.num_results)
           call == search_google_cse(config.API_KEY, config.CSE_ID, resp)
           list == process_search_results(call)
       IN /\ search_log' = Append(search_log, start_index)
          /\ IF call.raised = "Exception"
             THEN /\ fatal' = "Exception" /\ pc' = "summary"
                  /\ page_yield' = Append(page_yield, -2)
                  /\ UNCHANGED <<page, stop_fetching_pages, counters,
                                 raw_results_for_query,
                                 extracted_results_for_query, failed_queries,
                                 pageVars, extractor_calls>>
             ELSE /\ fatal' = fatal /\ pc' = "page_loop"
                  /\ page' = page + 1
                  /\ stop_fetching_pages' = StopAfter(call, list, args.num_results)
                  /\ IF SearchFailed(call)
                     THEN /\ page_yield' = Append(page_yield, -1)
                          /\ failed_queries' = failed_queries \cup {current_query}
                          /\ results_json' =
                               IF call.is_none THEN call ELSE results_json
                          /\ UNCHANGED <<counters, raw_results_for_query,
                                         extracted_results_for_query,
                                         search_results_list, extractor_calls>>
                     ELSE /\ failed_queries' = failed_queries
                          /\ results_json' = call
                          /\ search_results_list' = list
                          /\ page_yield' = Append(page_yield, Len(list))
                          /\ raw_results_for_query' = raw_results_for_query
                               \o PageRaw(list, current_query, page, start_index)
                          /\ extracted_results_for_query' =
                               extracted_results_for_query
                               \o PageExtracted(list, current_query, page,
                                                start_index, ext)
                          /\ extractor_calls' =
                               extractor_calls \o PageExtractorCalls(list)
                          /\ counters' = PageCounters(counters, list, ext)
    /\ UNCHANGED <<cfgVars, runVars, genVars, batchVars, ioVars, current_query,
                   sleeps, returned, summary>>

\* The page loop ends (range exhausted, or the break on the stop flag) and
\* _process_single_query returns its counters and its two lists.
ReturnQuery ==
    /\ pc = "page_loop"
    /\ page >= args.pages \/ stop_fetching_pages
    /\ returned' = returned + 1
    /\ produced_raw' = produced_raw \o raw_results_for_query
    /\ produced_extracted' = produced_extracted \o extracted_results_for_query
    /\ results_json' = ReturnedNone /\ search_results_list' = <<>>
    /\ pc' = "aggregate"
    /\ UNCHANGED <<cfgVars, runVars, genVars, batch_index, query_batch,
                   query_in_batch_index, current_batch_raw_results,
                   current_batch_extracted_results, queryVars, ioVars,
                   sleeps, failed_queries, fatal, summary>>

\* After the call: the totals, the batch lists and the query index.
Aggregate ==
    /\ pc = "aggregate"
    /\ total_counters' = AddCounters(total_counters, counters)
    /\ current_batch_raw_results' =
           current_batch_raw_results \o raw_results_for_query
    /\ current_batch_extracted_results' =
           current_batch_extracted_results \o extracted_results_for_query
    /\ global_query_index' = global_query_index + 1
    /\ query_in_batch_index' = query_in_batch_index + 1
    /\ pc' = "query_loop"
    /\ UNCHANGED <<pageVars, cfgVars, queries, dirs, actual_lines_written, num_batches,
                   genVars, batch_index, query_batch, produced_raw,
                   produced_extracted, queryVars, ioVars, obsVars>>

\* RawBatchFile without the batch number in the name.
RawBatchFile_NoIndex(index) == <<"raw", 1>>

RawBatchFile(index) == <<"raw", index + 1>>
ExtractedBatchFile(index) == <<"extracted", index + 1>>

\* The path each of the two is opened under.
raw_batch_filename(index) == BatchFilename(args.search_output_base, index)
extracted_batch_filename(index) ==
    BatchFilename(args.extracted_output_base, index)

\* open(name, 'w') and the writes: the file as it is afterwards.
FilesAfter(name, records, outcome) ==
    IF outcome = "open_error" THEN files
    ELSE IF outcome = "close_error"
         THEN (name :> FlushedBeforeClose(WrittenLines(records, outcome))) @@ files
         ELSE (name :> WrittenLines(records, outcome)) @@ files

\* The number added to actual_lines_written (nothing after an IOError).
LinesCounted(records, outcome) ==
    IF RaisesIOError(outcome) THEN 0 ELSE Len(WrittenLines(records, outcome))

\* The number of records whose save_jsonl_record returned False.
FailedWrites(records, outcome) ==
    IF outcome = "open_error" THEN 0
    ELSE Len(records) - Len(WrittenLines(records, outcome))

\* The flushes so far that met an I/O failure (an IOError, or a record whose
\* write failed).
IOFaults ==
    Cardinality({n \in 1..Len(io_log) :
                    ~io_log[n].closed \/ io_log[n].failed_writes > 0})

\* The batch is complete: its raw records are saved to the raw batch file.
SaveRaw(outcome) ==
    /\ pc = "query_loop"
    /\ query_in_batch_index >= Len(query_batch)
    /\ outcome = "all_written" \/ IOFaults < MaxIOFaults
    /\ files' = FilesAfter(RawBatchFile(batch_index),
                           current_batch_raw_results, outcome)
    /\ io_log' = Append(io_log, [file |-> RawBatchFile(batch_index),
                                 path |-> raw_batch_filename(batch_index),
                                 opened |-> outcome # "open_error",
                                 closed |-> ~RaisesIOError(outcome),
                                 failed_writes |-> FailedWrites(
                                     current_batch_raw_results, outcome)])
    /\ actual_lines_written' =
           [actual_lines_written EXCEPT
              !.raw = @ + LinesCounted(current_batch_raw_results, outcome)]
    /\ pc' = "save_extracted"
    /\ UNCHANGED <<pageVars, cfgVars, queries, dirs, total_counters, global_query_index,
                   num_batches, genVars, batchVars, queryVars, obsVars>>

\* Then its extracted records to the extracted batch file.
SaveExtracted(outcome) ==
    /\ pc = "save_extracted"
    /\ outcome = "all_written" \/ IOFaults < MaxIOFaults
    /\ files' = FilesAfter(ExtractedBatchFile(batch_index),
                           current_batch_extracted_results, outcome)
    /\ io_log' = Append(io_log, [file |-> ExtractedBatchFile(batch_index),
                                 path |-> extracted_batch_filename(batch_index),
                                 opened |-> outcome # "open_error",
                                 closed |-> ~RaisesIOError(outcome),
                                 failed_writes |-> FailedWrites(
                                     current_batch_extracted_results, outcome)])
    /\ actual_lines_written' =
           [actual_lines_written EXCEPT
              !.extracted = @ + LinesCounted(current_batch_extracted_results, outcome)]
    /\ pc' = "batch_log"
    /\ UNCHANGED <<pageVars, cfgVars, queries, dirs, total_counters, global_query_index,
                   num_batches, genVars, batchVars, queryVars, obsVars>>

\* The two quotients of the closing log line divide by the lengths of the
\* batch lists.
DivisionRaises(raw, extracted) == Len(raw) = 0 \/ Len(extracted) = 0

\* The closing log line of a batch: a ZeroDivisionError leaves the loop and
\* is caught at the top level, else the loop goes on.
BatchLog ==
    /\ pc = "batch_log"
    /\ IF DivisionRaises(current_batch_raw_results, current_batch_extracted_results)
       THEN fatal' = "ZeroDivisionError" /\ pc' = "summary"
       ELSE fatal' = fatal /\ pc' = "batch_loop"
    /\ UNCHANGED <<pageVars, cfgVars, runVars, genVars, batchVars, queryVars, ioVars,
                   sleeps, returned, failed_queries, summary>>

\* SummaryLine that prints the total in the place of the processed count.
SummaryLine_PrintsTotal(gqi, total) == [processed |-> total, total |-> total]

\* "Processed {global_query_index} out of {len(queries)} total queries."
SummaryLine(gqi, total) == [processed |-> gqi, total |-> total]

\* The final summary is printed.
Summary ==
    /\ pc = "summary"
    /\ summary' = [printed |-> TRUE,
                   processed |-> SummaryLine(global_query_index, Len(queries)).processed,
                   total |-> SummaryLine(global_query_index, Len(queries)).total,
                   counters |-> total_counters,
                   lines |-> actual_lines_written]
    /\ pc' = "done"
    /\ UNCHANGED <<pageVars, cfgVars, runVars, genVars, batchVars, queryVars, ioVars,
                   sleeps, returned, failed_queries, fatal>>

\* What the provider and the fetched pages do in a whole run.
RunResponses ==
    {Failure(k) : k \in {"conn_error", "timeout", "unexpected"}}
    \cup {Ok(TRUE, ProviderItems(n, bad, "ftp")) :
            n \in 0..MIN_NUM_RESULTS, bad \in 0..MIN_NUM_RESULTS}
RunExt == {"all_text", "all_fail"}

Next ==
    \/ ValidateConfig
    \/ ReadQueries
    \/ \E o \in MkdirOutcomes : PrepareDirs(o)
    \/ SetupBatches
    \/ NextBatch
    \/ StartQuery
    \/ \E resp \in RunResponses, ext \in RunExt : FetchPage(resp, ext)
    \/ ReturnQuery
    \/ Aggregate
    \/ \E o \in FlushOutcomes : SaveRaw(o)
    \/ \E o \in FlushOutcomes : SaveExtracted(o)
    \/ BatchLog
    \/ Summary

Spec == Init /\ [][Next]_vars

\* The run is one thread that is never held up for ever: a step that can be
\* taken is taken.
SpecLive == Spec /\ WF_vars(Next)

\* ------------------------------------------- _process_single_query alone
\* One call of _process_single_query, for the only query of a run, with
\* every page count and page size of the bounds and every response.
InitQ ==
    /\ config = [API_KEY |-> TRUE, CSE_ID |-> TRUE]
    /\ source = [ok |-> TRUE, queries |-> QueryList(1)]
    /\ \E a \in [pages : (-1)..MaxPages, num_results : 1..MaxNum,
                 batch_size : {1}, delay : {1}],
          b \in DefaultBases : args = a @@ b
    /\ queries = QueryList(1) /\ dirs = {"raw", "extracted"}
    /\ total_counters = ZeroCounters
    /\ actual_lines_written = [raw |-> 0, extracted |-> 0]
    /\ global_query_index = 0 /\ num_batches = 1
    /\ gen_i = 1 /\ batches = <<QueryList(1)>>
    /\ batch_index = 0 /\ query_batch = QueryList(1) /\ query_in_batch_index = 0
    /\ current_batch_raw_results = <<>> /\ current_batch_extracted_results = <<>>
    /\ produced_raw = <<>> /\ produced_extracted = <<>>
    /\ current_query = 1 /\ page = 0 /\ stop_fetching_pages = FALSE
    /\ counters = ZeroCounters
    /\ raw_results_for_query = <<>> /\ extracted_results_for_query = <<>>
    /\ search_log = <<>> /\ page_yield = <<>> /\ extractor_calls = <<>>
    /\ results_json = ReturnedNone /\ search_results_list = <<>>
    /\ files = NoFiles /\ io_log = <<>>
    /\ sleeps = 0 /\ returned = 0 /\ failed_queries = {}
    /\ fatal = "none" /\ summary = NoSummary
    /\ pc = "page_loop"

NextQ ==
    \/ \E resp \in Responses(args.num_results), ext \in ExtPatterns :
          FetchPage(resp, ext)
    \/ ReturnQuery

SpecQ == InitQ /\ [][NextQ]_vars

\* ------------------------------------------- process_search_results alone
\* Items of a response as the provider sends them, with a key the program
\* does not read: a valid one, one with an ftp link, one with neither title
\* nor snippet, one without a link, one with an empty link.
ItemA == [title |-> "A", link |-> Link("https://", "a.example"),
          snippet |-> "sA", displayLink |-> "a.example"]
ItemB == [title |-> "B", link |-> Link("ftp://", "bad"),
          snippet |-> "sB", displayLink |-> "bad"]
ItemBare == [title |-> Absent, link |-> Link("http://", "c.example"),
             snippet |-> Absent, displayLink |-> "c.example"]
ItemNoLink == [title |-> "D", link |-> NoneLink,
               snippet |-> "sD", displayLink |-> "d.example"]
ItemEmptyLink == [title |-> "E", link |-> EmptyLink,
                  snippet |-> Absent, displayLink |-> "e.example"]

CatalogueItems == {ItemA, ItemB, ItemBare, ItemNoLink, ItemEmptyLink}

\* A timeout, an object without items, and every list of 0..MaxItems items.
CatalogueResponses ==
    {Failure("timeout"), Ok(FALSE, <<>>)}
    \cup {Ok(TRUE, l) : l \in UNION {[1..k -> CatalogueItems] : k \in 0..MaxItems}}

\* The function is applied to what search_google_cse returned.
ProcessResults ==
    /\ pc = "process_results"
    /\ search_results_list' = process_search_results(results_json)
    /\ pc' = "processed"
    /\ UNCHANGED <<cfgVars, runVars, genVars, batchVars, queryVars, ioVars,
                   obsVars, results_json>>

\* Either the function alone, on any response of the catalogue, or one call
\* of _process_single_query with the default page count and page size.
InitP ==
    /\ config = [API_KEY |-> TRUE, CSE_ID |-> TRUE]
    /\ source = [ok |-> TRUE, queries |-> QueryList(1)]
    /\ \E b \in DefaultBases :
          args = [pages |-> DEFAULT_PAGES,
                  num_results |-> DEFAULT_CSE_NUM_RESULTS,
                  batch_size |-> 1, delay |-> 1] @@ b
    /\ queries = QueryList(1) /\ dirs = {"raw", "extracted"}
    /\ total_counters = ZeroCounters
    /\ actual_lines_written = [raw |-> 0, extracted |-> 0]
    /\ global_query_index = 0 /\ num_batches = 1
    /\ gen_i = 1 /\ batches = <<QueryList(1)>>
    /\ batch_index = 0 /\ query_batch = QueryList(1) /\ query_in_batch_index = 0
    /\ current_batch_raw_results = <<>> /\ current_batch_extracted_results = <<>>
    /\ produced_raw = <<>> /\ produced_extracted = <<>>
    /\ current_query = 1 /\ page = 0 /\ stop_fetching_pages = FALSE
    /\ counters = ZeroCounters
    /\ raw_results_for_query = <<>> /\ extracted_results_for_query = <<>>
    /\ search_log = <<>> /\ page_yield = <<>> /\ extractor_calls = <<>>
    /\ search_results_list = <<>>
    /\ files = NoFiles /\ io_log = <<>>
    /\ sleeps = 0 /\ returned = 0 /\ failed_queries = {}
    /\ fatal = "none" /\ summary = NoSummary
    /\ \/ /\ pc = "process_results"
          /\ results_json \in
                {search_google_cse(TRUE, TRUE, r) : r \in CatalogueResponses}
       \/ /\ pc = "page_loop"
          /\ results_json = ReturnedNone

NextP ==
    \/ ProcessResults
    \/ \E resp \in CatalogueResponses, ext \in ExtPatterns : FetchPage(resp, ext)
    \/ ReturnQuery

SpecP == InitP /\ [][NextP]_vars

\* --------------------------------------------------- batch_generator alone
\* The generator is run to its end without processing the batches.
DrainGenerator ==
    /\ pc = "batch_loop"
    /\ LET g == batch_generator(queries, args.batch_size, gen_i)
       IN /\ ~g.done
          /\ TakeBatch(g)
    /\ UNCHANGED <<pageVars, cfgVars, runVars, query_in_batch_index,
                   current_batch_raw_results, current_batch_extracted_results,
                   produced_raw, produced_extracted, queryVars, ioVars,
                   obsVars, pc>>

\* Any list of 0..MaxListLen queries and any batch size, before the setup.
InitB ==
    /\ config = [API_KEY |-> TRUE, CSE_ID |-> TRUE]
    /\ \E n \in 0..MaxListLen :
          /\ source = [ok |-> TRUE, queries |-> QueryList(n)]
          /\ queries = QueryList(n)
    /\ \E a \in [pages : {DEFAULT_PAGES}, num_results : {MIN_NUM_RESULTS},
                 batch_size : 1..MaxBatchSize, delay : {1}],
          b \in DefaultBases : args = a @@ b
    /\ dirs = {"raw", "extracted"}
    /\ total_counters = ZeroCounters
    /\ actual_lines_written = [raw |-> 0, extracted |-> 0]
    /\ global_query_index = 0 /\ num_batches = 0
    /\ gen_i = 0 /\ batches = <<>>
    /\ batch_index = 0 /\ query_batch = <<>> /\ query_in_batch_index = 0
    /\ current_batch_raw_results = <<>> /\ current_batch_extracted_results = <<>>
    /\ produced_raw = <<>> /\ produced_extracted = <<>>
    /\ current_query = 0 /\ page = 0 /\ stop_fetching_pages = FALSE
    /\ counters = ZeroCounters
    /\ raw_results_for_query = <<>> /\ extracted_results_for_query = <<>>
    /\ search_log = <<>> /\ page_yield = <<>> /\ extractor_calls = <<>>
    /\ results_json = ReturnedNone /\ search_results_list = <<>>
    /\ files = NoFiles /\ io_log = <<>>
    /\ sleeps = 0 /\ returned = 0 /\ failed_queries = {}
    /\ fatal = "none" /\ summary = NoSummary
    /\ pc = "setup"

NextB == SetupBatches \/ DrainGenerator

SpecB == InitB /\ [][NextB]_vars

\* ------------------------------------------------------------------ claims
QueryReturned == pc = "aggregate"

\* The records of page pg (1-based) in a record list.
OnPage(recs, pg) == {i \in 1..Len(recs) : recs[i].search_page = pg}

\* 0-based position of record i among the records of its page.
PosInPage(recs, i) ==
    Cardinality({j \in 1..(i - 1) : recs[j].search_page = recs[i].search_page})

\* The number of records the first n pages gave.
RECURSIVE YieldUpTo(_, _)
YieldUpTo(y, n) ==
    IF n = 0 THEN 0
    ELSE YieldUpTo(y, n - 1) + (IF y[n] > 0 THEN y[n] ELSE 0)

\* C1: the two lists _process_single_query returns have the same length, and
\* the i-th extracted record carries the query, search_page and approx_rank
\* of the i-th raw record and its link as url, whatever the extraction gave.
C1_ParallelRecords ==
    QueryReturned =>
      /\ Len(extracted_results_for_query) = Len(raw_results_for_query)
      /\ \A i \in 1..Len(raw_results_for_query) :
            /\ i <= Len(extracted_results_for_query)
            /\ extracted_results_for_query[i].query = raw_results_for_query[i].query
            /\ extracted_results_for_query[i].search_page
                 = raw_results_for_query[i].search_page
            /\ extracted_results_for_query[i].approx_rank
                 = raw_results_for_query[i].approx_rank
            /\ extracted_results_for_query[i].url = raw_results_for_query[i].link

\* A query has returned records of which one has no text and one has text.
C1_Witness ==
    /\ QueryReturned
    /\ \E i, j \in 1..Len(extracted_results_for_query) :
          /\ extracted_results_for_query[i].extracted_text = None
          /\ extracted_results_for_query[j].extracted_text # None

\* The counters that correspond to the two lists.
CountersMatch ==
    /\ counters.raw_saved = Len(raw_results_for_query)
    /\ counters.urls_processed =
         Cardinality({i \in 1..Len(extracted_results_for_query) :
                        Truthy(extracted_results_for_query[i].url)})
    /\ counters.extractions_success =
         Cardinality({i \in 1..Len(extracted_results_for_query) :
                        extracted_results_for_query[i].extracted_text # None})

\* C3: when the search call for page p (the call number p+1) fails with a
\* network-class error or gives no response, the function does not raise, no
\* further page is requested, and the lists hold exactly the records of the
\* pages before, with the counters that correspond to them; a failure on
\* page 0 leaves two empty lists and three zero counters.
C3_FailureKeepsPriorPages ==
    \A n \in 1..Len(page_yield) :
       page_yield[n] = -1 =>
         /\ n = Len(page_yield) /\ Len(search_log) = n
         /\ fatal = "none" /\ pc \in {"page_loop", "aggregate"}
         /\ stop_fetching_pages
         /\ Len(raw_results_for_query) = YieldUpTo(page_yield, n - 1)
         /\ Len(extracted_results_for_query) = YieldUpTo(page_yield, n - 1)
         /\ \A i \in 1..Len(raw_results_for_query) :
               raw_results_for_query[i].search_page <= n - 1
         /\ \A pg \in 1..(n - 1) :
               Cardinality(OnPage(raw_results_for_query, pg)) = page_yield[pg]
         /\ CountersMatch
         /\ n = 1 => /\ raw_results_for_query = <<>>
                     /\ extracted_results_for_query = <<>>
                     /\ counters = ZeroCounters

\* A query has returned after two recorded pages and a failed third call.
C3_Witness ==
    /\ QueryReturned
    /\ Len(page_yield) = 3 /\ page_yield[3] = -1
    /\ Len(raw_results_for_query) >= 2
    /\ args.pages > 3

\* C4: a further page is requested only after a page whose normalized list
\* had at least the requested size; the items of a shorter page are recorded;
\* full pages 0..2 and k-1 items on page 3 give exactly 4 search calls and
\* 4k-1 records, whatever the page limit.
C4_NextPageOnlyAfterFullPage ==
    /\ Len(page_yield) = Len(search_log)
    /\ \A n \in 2..Len(search_log) : page_yield[n - 1] >= args.num_results
    /\ \A n \in 1..Len(page_yield) :
          page_yield[n] >= 0 =>
             (pc \in {"page_loop", "aggregate"} =>
                Cardinality(OnPage(raw_results_for_query, n)) = page_yield[n])
    /\ (/\ QueryReturned
        /\ Len(page_yield) >= 4
        /\ \A n \in 1..3 : page_yield[n] = args.num_results
        /\ page_yield[4] = args.num_results - 1)
       => /\ Len(search_log) = 4
          /\ Len(raw_results_for_query) = 4 * args.num_results - 1
          /\ Len(extracted_results_for_query) = 4 * args.num_results - 1

\* Page size 2, page limit 5: three full pages, one record on page 3, return.
C4_Witness ==
    /\ QueryReturned
    /\ args.num_results = 2 /\ args.pages = 5
    /\ page_yield = <<2, 2, 2, 1>>
    /\ Len(search_log) = 4
    /\ Len(raw_results_for_query) = 7

\* approx_rank = (search_page - 1) * pageSize + position within the page + 1.
RankFormula(recs) ==
    \A i \in 1..Len(recs) :
       recs[i].approx_rank =
          (recs[i].search_page - 1) * args.num_results + PosInPage(recs, i) + 1

StrictlyIncreasing(recs) ==
    \A i \in 1..(Len(recs) - 1) : recs[i].approx_rank < recs[i + 1].approx_rank

StartsAtOne(recs) == recs # <<>> => recs[1].approx_rank = 1

\* No page gave more valid-link items than the page size.
NoOversizePage == \A n \in 1..Len(page_yield) : page_yield[n] <= args.num_results

\* C5 as stated: for every sequence of provider responses approx_rank is
\* strictly increasing along the record sequence, starts at 1 and follows
\* the rank formula.
C5_RankStrictlyIncreasing ==
    /\ StrictlyIncreasing(raw_results_for_query)
    /\ StartsAtOne(raw_results_for_query)
    /\ RankFormula(raw_results_for_query)

\* C5 amended: approx_rank starts at 1, follows the rank formula and is
\* strictly increasing within a page for every sequence of responses; it is
\* strictly increasing along the whole sequence when no page gave more
\* valid-link items than the page size.
C5_RankAmended ==
    /\ StartsAtOne(raw_results_for_query)
    /\ StartsAtOne(extracted_results_for_query)
    /\ RankFormula(raw_results_for_query)
    /\ RankFormula(extracted_results_for_query)
    /\ \A i \in 1..(Len(raw_results_for_query) - 1) :
          raw_results_for_query[i].search_page
             = raw_results_for_query[i + 1].search_page
          => raw_results_for_query[i].approx_rank
               < raw_results_for_query[i + 1].approx_rank
    /\ NoOversizePage =>
          /\ StrictlyIncreasing(raw_results_for_query)
          /\ StrictlyIncreasing(extracted_results_for_query)

\* A query has returned records of three pages, none of them oversize.
C5_Witness ==
    /\ QueryReturned
    /\ NoOversizePage
    /\ args.num_results = 2
    /\ Len(raw_results_for_query) >= 5
    /\ raw_results_for_query[Len(raw_results_for_query)].search_page = 3

RECURSIVE Concat(_)
Concat(ss) == IF ss = <<>> THEN <<>> ELSE Head(ss) \o Concat(Tail(ss))

\* The least m with m * size >= n.
CeilOf(n, size) == CHOOSE m \in 0..n : m * size >= n /\ (m = 0 \/ (m - 1) * size < n)

GeneratorDone ==
    pc = "batch_loop" /\ batch_generator(queries, args.batch_size, gen_i).done

\* C6: batch_generator yields exactly ceil(N/b) batches, consecutive and in
\* list order: all but the last of b queries, the last of 1..b, their
\* concatenation the list itself (N=23, b=10: sizes 10, 10, 3); the announced
\* number of batches is the number of batches yielded.
C6_BatchPartition ==
    /\ pc = "batch_loop" =>
          Concat(batches) = SubSeq(queries, 1, Len(Concat(batches)))
    /\ GeneratorDone =>
          /\ Len(batches) = CeilOf(Len(queries), args.batch_size)
          /\ Len(batches) = num_batches
          /\ Concat(batches) = queries
          /\ \A j \in 1..(Len(batches) - 1) : Len(batches[j]) = args.batch_size
          /\ batches # <<>> =>
                /\ Len(batches[Len(batches)]) >= 1
                /\ Len(batches[Len(batches)]) <= args.batch_size
          /\ (Len(queries) = 23 /\ args.batch_size = 10) =>
                [j \in 1..Len(batches) |-> Len(batches[j])] = <<10, 10, 3>>

\* 23 queries in batches of 10 have been handed out in 3 batches.
C6_Witness ==
    /\ GeneratorDone
    /\ Len(queries) = 23 /\ args.batch_size = 10
    /\ Len(batches) = 3 /\ Len(batches[3]) = 3

\* The run has ended and no collaborator raised an unclassified exception.
EndedWithoutCollaboratorException == pc = "done" /\ fatal # "Exception"

\* Every query was processed and both flushes of every batch were attempted.
RunComplete ==
    /\ global_query_index = Len(queries)
    /\ returned = Len(queries)
    /\ Len(batches) = num_batches
    /\ Len(io_log) = 2 * num_batches

\* C2: a failed search call of one query does not abort the run: every later
\* query is processed and the batch of the failed query and every later
\* batch are flushed, also when the failed query is alone in its batch.
C2_SearchFailureNonFatal ==
    (EndedWithoutCollaboratorException /\ failed_queries # {}) => RunComplete

\* C7: with delay > 0 a run over N queries sleeps exactly N-1 times, with
\* delay <= 0 never.
C7_DelayCount ==
    EndedWithoutCollaboratorException =>
       sleeps = (IF args.delay > 0 THEN Len(queries) - 1 ELSE 0)

\* The open() of file name failed.
OpenFailed(name) ==
    \E n \in 1..Len(io_log) : io_log[n].file = name /\ ~io_log[n].opened

Attempted(name) == \E n \in 1..Len(io_log) : io_log[n].file = name

\* C9: when the raw destination of a batch fails, the extracted destination of
\* that batch is still opened and written and the run goes on to the next
\* batch; and the other way round.
C9_FlushesIndependent ==
    EndedWithoutCollaboratorException =>
       \A b \in 1..Len(batches) :
          /\ OpenFailed(<<"raw", b>>) =>
                /\ Attempted(<<"extracted", b>>)
                /\ ~OpenFailed(<<"extracted", b>>) =>
                      <<"extracted", b>> \in DOMAIN files
                /\ RunComplete
          /\ OpenFailed(<<"extracted", b>>) =>
                /\ ~OpenFailed(<<"raw", b>>) => <<"raw", b>> \in DOMAIN files
                /\ RunComplete

\* a is b with some of its elements left out.
RECURSIVE IsSubseq(_, _)
IsSubseq(a, b) ==
    IF a = <<>> THEN TRUE
    ELSE IF b = <<>> THEN FALSE
    ELSE IF Head(a) = Head(b) THEN IsSubseq(Tail(a), Tail(b))
    ELSE IsSubseq(a, Tail(b))

\* The file was opened by exactly one open() call of the run.
OpenedOnce(name) ==
    Cardinality({n \in 1..Len(io_log) : io_log[n].file = name /\ io_log[n].opened}) = 1

\* Exactly one open() call of the run named the file.
AttemptedOnce(name) ==
    Cardinality({n \in 1..Len(io_log) : io_log[n].file = name}) = 1

\* Both lists of a batch are empty before its first query.
ListsStartEmpty ==
    (pc = "query_loop" /\ query_in_batch_index = 0) =>
       /\ current_batch_raw_results = <<>>
       /\ current_batch_extracted_results = <<>>

\* Between two queries the batch lists hold what the queries of the batch
\* returned, and nothing of another batch.
ListsHoldTheBatch ==
    pc \in {"query_loop", "save_extracted", "batch_log"} =>
       /\ current_batch_raw_results = produced_raw
       /\ current_batch_extracted_results = produced_extracted
       /\ \A i \in 1..Len(current_batch_raw_results) :
             \E j \in 1..Len(query_batch) :
                query_batch[j] = current_batch_raw_results[i].query

\* C8 as stated: while a query of a batch is processed, both files of every
\* earlier batch have been opened, written and closed, each exactly once;
\* the file of a batch holds exactly the records its queries produced; the
\* lists start empty.
C8_FlushedBeforeNextBatch ==
    /\ pc \in {"page_loop", "aggregate"} =>
          \A b \in 1..batch_index :
             /\ OpenedOnce(<<"raw", b>>) /\ <<"raw", b>> \in DOMAIN files
             /\ OpenedOnce(<<"extracted", b>>) /\ <<"extracted", b>> \in DOMAIN files
    /\ pc = "save_extracted" =>
          /\ OpenedOnce(RawBatchFile(batch_index))
          /\ files[RawBatchFile(batch_index)] = produced_raw
    /\ pc = "batch_log" =>
          /\ OpenedOnce(ExtractedBatchFile(batch_index))
          /\ files[ExtractedBatchFile(batch_index)] = produced_extracted
    /\ ListsStartEmpty
    /\ ListsHoldTheBatch

\* The last open() call named the file; what it left in the file.
LastFlushOf(name, produced) ==
    /\ io_log # <<>>
    /\ io_log[Len(io_log)].file = name
    /\ AttemptedOnce(name)
    /\ IF io_log[Len(io_log)].opened
       THEN /\ name \in DOMAIN files
            /\ IsSubseq(files[name], produced)
            /\ io_log[Len(io_log)].closed =>
                  /\ Len(files[name]) =
                         Len(produced) - io_log[Len(io_log)].failed_writes
                  /\ io_log[Len(io_log)].failed_writes = 0 => files[name] = produced
       ELSE name \notin DOMAIN files

\* C8 amended: while a query of a batch is processed, the flush of both files
\* of every earlier batch has been attempted and has ended, in batch order,
\* each file by exactly one open() call (it opened the file, or failed); an
\* opened file holds, in order, records the queries of its batch produced,
\* and when its close did not fail exactly those whose write succeeded, all
\* of them when no write failed; the lists start empty and hold the records
\* of one batch only.
C8_FlushAttemptedBeforeNextBatch ==
    /\ pc \in {"query_loop", "page_loop", "aggregate"} =>
          /\ Len(io_log) = 2 * batch_index
          /\ \A b \in 1..batch_index :
                /\ io_log[2 * b - 1].file = <<"raw", b>>
                /\ io_log[2 * b].file = <<"extracted", b>>
    /\ \A n \in 1..Len(io_log) : AttemptedOnce(io_log[n].file)
    /\ DOMAIN files = {io_log[n].file : n \in {m \in 1..Len(io_log) : io_log[m].opened}}
    /\ pc = "save_extracted" =>
          /\ Len(io_log) = 2 * batch_index + 1
          /\ LastFlushOf(RawBatchFile(batch_index), produced_raw)
    /\ pc = "batch_log" =>
          /\ Len(io_log) = 2 * batch_index + 2
          /\ io_log[Len(io_log) - 1].file = RawBatchFile(batch_index)
          /\ LastFlushOf(ExtractedBatchFile(batch_index), produced_extracted)
    /\ ListsStartEmpty
    /\ ListsHoldTheBatch

\* The second batch is being searched after a first batch whose raw file
\* lost a record and whose extracted file was written in full.
C8_Witness ==
    /\ pc = "page_loop" /\ search_log # <<>>
    /\ batch_index = 1
    /\ io_log[1].opened /\ io_log[1].closed /\ io_log[1].failed_writes = 1
    /\ io_log[2].opened /\ io_log[2].closed /\ io_log[2].failed_writes = 0
    /\ Len(files[<<"extracted", 1>>]) = 2
    /\ Len(files[<<"raw", 1>>]) = 1

\* C10: once an exception is caught at the top level, no query is processed,
\* no search is made, no file is opened or changed; the one step left prints
\* the summary, whose processed count is the number of queries that returned.
C10_FatalEndsRunWithSummary ==
    /\ [](fatal # "none" => pc \in {"summary", "done"})
    /\ []((pc = "done" /\ fatal # "none") =>
             /\ summary.printed
             /\ summary.processed = returned
             /\ summary.lines = actual_lines_written)
    /\ [][fatal # "none" =>
             /\ files' = files /\ io_log' = io_log
             /\ returned' = returned /\ search_log' = search_log
             /\ global_query_index' = global_query_index
             /\ fatal' = fatal
             /\ pc = "summary" /\ pc' = "done" /\ summary'.printed]_vars

\* An exception of the search call of the third query ended a run whose
\* first batch of two queries had been flushed.
C10_Witness ==
    /\ pc = "done" /\ fatal = "Exception"
    /\ summary.printed /\ summary.processed = 2
    /\ Len(queries) = 3
    /\ Len(io_log) = 2 /\ <<"raw", 1>> \in DOMAIN files


\* ------------------------------------------------------------ C11
\* The number of lines the batch files of one kind hold when the run ends.
RECURSIVE LinesOnDisk(_, _)
LinesOnDisk(kind, b) ==
    IF b = 0 THEN 0
    ELSE LinesOnDisk(kind, b - 1)
         + (IF <<kind, b>> \in DOMAIN files THEN Len(files[<<kind, b>>]) ELSE 0)

\* C11: when the run has ended, the summary's raw lines written is the number
\* of raw records the batch files hold over all batches, its extracted lines
\* written is the number of extracted records they hold, a file that could
\* not be opened counts for 0, and neither number exceeds the total raw_saved
\* counter.
C11_SummaryCountsLinesOnDisk ==
    (pc = "done" /\ summary.printed) =>
        /\ summary.lines.raw = LinesOnDisk("raw", MaxQueries + 1)
        /\ summary.lines.extracted = LinesOnDisk("extracted", MaxQueries + 1)
        /\ \A n \in 1..Len(io_log) :
              ~io_log[n].opened => io_log[n].file \notin DOMAIN files
        /\ summary.lines.raw <= summary.counters.raw_saved
        /\ summary.lines.extracted <= summary.counters.raw_saved

\* The same statement for the runs in which no close of a batch file failed.
C11_HoldsWhenEveryCloseSucceeds ==
    (\A n \in 1..Len(io_log) : io_log[n].opened => io_log[n].closed)
        => C11_SummaryCountsLinesOnDisk


\* ------------------------------------------------------------ C12
\* A query has been started, a search made, or a batch file opened.
WorkStarted ==
    \/ pc \in {"query_loop", "page_loop", "aggregate", "save_extracted",
               "batch_log", "summary", "done"}
    \/ current_query # 0 \/ search_log # <<>> \/ page_yield # <<>>
    \/ io_log # <<>> \/ files # NoFiles \/ returned # 0 \/ sleeps # 0

SecretsPresent == config.API_KEY /\ config.CSE_ID
QueriesRead == source.ok /\ source.queries # <<>> /\ queries = source.queries
DirsCreated == dirs = {"raw", "extracted"}

\* C12: a search, a page fetch or a batch-file write happens only after, in
\* this order, both secrets were found present, the query source returned a
\* non-empty list and both batch directories were created; a missing secret,
\* a failed or empty source or a failed mkdir ends the run before any query,
\* the later steps of the prelude not taken.
C12_PreludeBeforeAnyWork ==
    /\ WorkStarted => SecretsPresent /\ QueriesRead /\ DirsCreated
    /\ DirsCreated => SecretsPresent /\ QueriesRead
    /\ dirs # {} => SecretsPresent /\ QueriesRead
    /\ queries # <<>> => SecretsPresent
    /\ pc = "exit" =>
          /\ ~WorkStarted
          /\ ~SecretsPresent \/ ~QueriesRead \/ ~DirsCreated
          /\ ~SecretsPresent => queries = <<>> /\ dirs = {}
          /\ (SecretsPresent /\ ~QueriesRead) => dirs = {}
    /\ (pc \in {"read", "mkdirs", "setup"}) => ~WorkStarted

\* A batch has been searched and both its files opened, after the prelude.
C12_Witness ==
    /\ pc = "batch_log" /\ Len(io_log) = 2
    /\ io_log[1].opened /\ io_log[2].opened
    /\ page_yield # <<>> /\ SecretsPresent /\ QueriesRead /\ DirsCreated


\* ------------------------------------------------------------ C13
\* The items of a response whose link is present and starts with http:// or
\* https://, in order, each reduced to title, link and snippet.
ValidItems(items) ==
    LET kept == SelectSeq(items,
                    LAMBDA it : it.link.scheme \in {"http://", "https://"})
    IN [i \in 1..Len(kept) |->
          [title |-> IF kept[i].title = Absent THEN "N/A" ELSE kept[i].title,
           link |-> kept[i].link,
           snippet |-> IF kept[i].snippet = Absent THEN "N/A"
                       ELSE kept[i].snippet]]

NormalizedFrom(call) ==
    IF call.is_none \/ ~call.json.has_items THEN <<>>
    ELSE ValidItems(call.json.items)

\* C13: process_search_results returns exactly the items whose link is
\* present and starts with http:// or https://, in their original order,
\* each reduced to title, link and snippet with a missing title or snippet
\* replaced by the default; a missing response or one without items gives
\* the empty list. For the items [A (https), B (ftp)], page size 10 and one
\* page, the query yields one raw record (A, rank 1), one extracted record,
\* and one search call.
C13_ValidLinksOnly ==
    /\ (pc = "processed" \/ (pc = "page_loop" /\ page > 0)) =>
          /\ search_results_list = NormalizedFrom(results_json)
          /\ \A i \in 1..Len(search_results_list) :
                DOMAIN search_results_list[i] = {"title", "link", "snippet"}
    /\ (pc = "page_loop" /\ page > 0
        /\ results_json = Returned(Ok(TRUE, <<ItemA, ItemB>>))) =>
          /\ raw_results_for_query =
                <<[title |-> "A", link |-> Link("https://", "a.example"),
                   snippet |-> "sA", query |-> current_query,
                   search_page |-> 1, approx_rank |-> 1]>>
          /\ Len(extracted_results_for_query) = 1
          /\ extracted_results_for_query[1].url = Link("https://", "a.example")
          /\ extracted_results_for_query[1].approx_rank = 1
          /\ counters.raw_saved = 1
          /\ search_log = <<1>> /\ stop_fetching_pages
          /\ ENABLED ReturnQuery

\* The page [A (https), B (ftp)] has been processed.
C13_Witness ==
    /\ pc = "page_loop" /\ page = 1
    /\ results_json = Returned(Ok(TRUE, <<ItemA, ItemB>>))
    /\ args.num_results = 10 /\ args.pages = 1
    /\ Len(raw_results_for_query) = 1

\* The function alone has dropped two items of three and filled the defaults.
C13_WitnessPure ==
    /\ pc = "processed"
    /\ results_json = Returned(Ok(TRUE, <<ItemNoLink, ItemBare, ItemB>>))
    /\ search_results_list =
          <<[title |-> "N/A", link |-> Link("http://", "c.example"),
             snippet |-> "N/A"]>>


\* ------------------------------------------------------------ C14
\* C14: at the end of a query (and after every page of it) raw_saved is the
\* number of raw records, urls_processed the number of extracted records
\* whose url is present, extractions_success the number of extracted records
\* whose text is not null, extractions_success <= urls_processed <=
\* raw_saved, and the extractor has been called exactly urls_processed
\* times, once for the url of each such record, in order.
C14_CountersCountRecords ==
    pc \in {"page_loop", "aggregate"} =>
        /\ CountersMatch
        /\ counters.extractions_success <= counters.urls_processed
        /\ counters.urls_processed <= counters.raw_saved
        /\ Len(extractor_calls) = counters.urls_processed
        /\ extractor_calls =
              LET linked == SelectSeq(extracted_results_for_query,
                                      LAMBDA r : Truthy(r.url))
              IN [i \in 1..Len(linked) |-> linked[i].url]

\* A query has returned after two pages, with more URLs processed than
\* extractions that succeeded.
C14_Witness ==
    /\ QueryReturned /\ Len(search_log) >= 2
    /\ counters.extractions_success > 0
    /\ counters.extractions_success < counters.urls_processed
    /\ Len(extractor_calls) = counters.urls_processed


\* ------------------------------------------------------------ C15
\* The path D/N_batches/N_<i+1>.jsonl of batch i for the base path D/N.
PathOfBatch(dir, name, i) ==
    dir \o <<name \o "_batches", name \o "_" \o ToString(i + 1) \o ".jsonl">>

\* Every open() call so far followed the rule D/N_batches/N_<i+1>.jsonl for
\* the base path its argument gives.
C15_GeneralRule ==
    \A n \in 1..Len(io_log) :
       LET base == IF io_log[n].file[1] = "raw" THEN args.search_output_base
                   ELSE args.extracted_output_base
       IN io_log[n].path =
             PathOfBatch(IF Len(base) = 1 THEN <<".">>
                         ELSE SubSeq(base, 1, Len(base) - 1),
                         base[Len(base)], io_log[n].file[2] - 1)

\* C15: with the default arguments the raw records of batch i are written to
\* results/raw_search_batches/raw_search_<i+1>.jsonl and its extracted
\* records to results/extracted_text_batches/extracted_text_<i+1>.jsonl; in
\* general the file of batch i for the base path D/N is
\* D/N_batches/N_<i+1>.jsonl.
C15_DefaultBatchFiles ==
    /\ C15_GeneralRule
    /\ \A n \in 1..Len(io_log) :
          /\ io_log[n].file[1] = "raw" =>
                io_log[n].path =
                   PathOfBatch(<<"results">>, "raw_search", io_log[n].file[2] - 1)
          /\ io_log[n].file[1] = "extracted" =>
                io_log[n].path =
                   PathOfBatch(<<"results">>, "extracted_text",
                               io_log[n].file[2] - 1)


\* ------------------------------------------------------------ C16
\* The search call number n met a stop condition: it failed, gave no
\* response, no valid item, or fewer items than asked for.
StopCondition(n) == page_yield[n] < args.num_results

\* C16: for a query the provider is called at most max(0, pages) times; the
\* n-th call is for page n-1, with start index (n-1)*num_results + 1, so
\* every page is asked for at most once, in increasing order without gaps
\* from page 0; no call follows a call that met a stop condition; with
\* pages <= 0 no call is made and the query returns no records and zero
\* counters.
C16_PagesOnceInOrder ==
    /\ Len(search_log) <= (IF args.pages > 0 THEN args.pages ELSE 0)
    /\ Len(page_yield) = Len(search_log)
    /\ \A n \in 1..Len(search_log) :
          search_log[n] = (n - 1) * args.num_results + 1
    /\ pc = "page_loop" => page = Len(search_log)
    /\ \A n \in 1..Len(search_log) : StopCondition(n) => n = Len(search_log)
    /\ (pc = "page_loop" /\ search_log # <<>>
        /\ StopCondition(Len(search_log))) =>
           /\ stop_fetching_pages
           /\ ~ENABLED (\E resp \in Responses(args.num_results),
                           ext \in ExtPatterns : FetchPage(resp, ext))
    /\ args.pages <= 0 =>
          /\ search_log = <<>>
          /\ pc = "page_loop" => ENABLED ReturnQuery
          /\ QueryReturned =>
                /\ raw_results_for_query = <<>>
                /\ extracted_results_for_query = <<>>
                /\ counters = ZeroCounters

\* A query has returned after three calls, the third of which met a stop
\* condition before the page limit.
C16_Witness ==
    /\ QueryReturned
    /\ Len(search_log) = 3 /\ args.pages > 3
    /\ StopCondition(3)
    /\ args.num_results = 2 /\ search_log = <<1, 3, 5>>

\* A query with a page limit of zero or less has returned.
C16_WitnessNoPages ==
    QueryReturned /\ args.pages <= 0 /\ search_log = <<>>


\* ------------------------------------------------------------ C17
\* Every query of the list was handed out in list order and returned, and
\* every one of the ceil(N/batch_size) batches was flushed and followed by
\* its closing log line.
AllProcessedAndFlushed ==
    /\ summary.printed /\ summary.processed = Len(queries)
    /\ returned = Len(queries)
    /\ Concat(batches) = queries
    /\ Len(batches) = CeilOf(Len(queries), args.batch_size)
    /\ Len(io_log) = 2 * Len(batches)
    /\ fatal = "none"

\* run_process always ends once the output directories exist.
C17_Terminates == (pc = "setup") ~> (pc = "done")

\* C17: once both output directories exist, and unless a collaborator throws
\* an exception that is none of its classified failures, run_process ends
\* having processed every query once, in list order, and having flushed
\* ceil(N/batch_size) batches, each followed by its closing log line, also
\* when the queries of a batch yield no record at all.
C17_RunProcessesEveryQuery ==
    (pc = "setup") ~>
        (pc = "done" /\ (fatal # "Exception" => AllProcessedAndFlushed))

====
